---------------------------- MODULE Spec2Model ----------------------------
(***************************************************************************)
(* Model of crates/html-to-markdown-rb/include/strings.h: the C            *)
(* preprocessor working through the header's directives, one directive    *)
(* per step, while a translation unit includes the header several times.  *)
(*                                                                         *)
(* The state is the preprocessor's macro environment restricted to the    *)
(* four names the header tests or defines, the position inside the header *)
(* and a record of the directives that were executed.                     *)
(***************************************************************************)
EXTENDS Naturals, Sequences, FiniteSets

(* How many times the translation unit includes the header. *)
MaxIncludes == 3

(* ------------------------------------------------------------------ *)
(* Names and replacement lists                                         *)
(* ------------------------------------------------------------------ *)

(* The value of a name that is not defined as a macro. *)
Undefined == "#undefined"

GUARD == "HTML_TO_MARKDOWN_RB_STRINGS_H"
WIN32 == "_WIN32"
STRCASECMP == "strcasecmp"
STRNCASECMP == "strncasecmp"

MacroNames == {GUARD, WIN32, STRCASECMP, STRNCASECMP}

(* The two names the header may alias. *)
AliasNames == {STRCASECMP, STRNCASECMP}

(* Replacement lists a translation unit may already have given the two    *)
(* names before the include: the platform primitives (straight or         *)
(* crossed) or a function of its own.                                     *)
UserBodies == {"_stricmp", "_strnicmp", "my_casecmp"}

(* Replacement lists the guard may already have: `#define G` or `-DG`.    *)
GuardBodies == {"", "1"}

(* The macro environments the first include can start from: whatever the  *)
(* compiler, the command line (-D) and the text of the translation unit   *)
(* before the include (#define, #undef, an earlier include of the header) *)
(* have left for the four names.                                          *)
StartEnvs ==
    { m \in [MacroNames -> UserBodies \cup GuardBodies \cup {Undefined}] :
        /\ m[GUARD] \in GuardBodies \cup {Undefined}
        /\ m[WIN32] \in {"1", Undefined}
        /\ m[STRCASECMP] \in UserBodies \cup {Undefined}
        /\ m[STRNCASECMP] \in UserBodies \cup {Undefined} }

IsDefined(m, name) == m[name] # Undefined

(* ------------------------------------------------------------------ *)
(* The header's directives                                             *)
(* ------------------------------------------------------------------ *)

(* line 1: #ifndef HTML_TO_MARKDOWN_RB_STRINGS_H *)
GuardIfndef(m) == ~IsDefined(m, GUARD)

(* A header whose guard is never set. *)
GuardDefineMissing(m) == m

(* line 2: #define HTML_TO_MARKDOWN_RB_STRINGS_H *)
GuardDefine(m) == [m EXCEPT ![GUARD] = ""]

(* A header that aliases on every platform. *)
Win32IfdefAlways(m) == TRUE

(* line 6: #ifdef _WIN32 *)
Win32Ifdef(m) == IsDefined(m, WIN32)

(* A header that aliases strcasecmp without testing it first. *)
StrcasecmpIfndefAlways(m) == TRUE

(* line 8: #ifndef strcasecmp *)
StrcasecmpIfndef(m) == ~IsDefined(m, STRCASECMP)

(* A header that crosses the two primitives. *)
StrcasecmpDefineCrossed(m) == [m EXCEPT ![STRCASECMP] = "_strnicmp"]

(* line 9: #define strcasecmp _stricmp *)
StrcasecmpDefine(m) == [m EXCEPT ![STRCASECMP] = "_stricmp"]

(* line 11: #ifndef strncasecmp *)
StrncasecmpIfndef(m) == ~IsDefined(m, STRNCASECMP)

(* line 12: #define strncasecmp _strnicmp *)
StrncasecmpDefine(m) == [m EXCEPT ![STRNCASECMP] = "_strnicmp"]

(* A #define that takes the environment from m to n is a redefinition     *)
(* error when it gives an already defined name a different replacement    *)
(* list.                                                                   *)
Redefines(m, n) ==
    \E name \in MacroNames : IsDefined(m, name) /\ n[name] # m[name]

(* ------------------------------------------------------------------ *)
(* State                                                               *)
(* ------------------------------------------------------------------ *)

VARIABLES
    macros,     \* the macro environment
    pc,         \* "tu": in the translation unit; "L<n>": at line n of the header
    nIncl,      \* includes of the header completed so far
    pre,        \* the macro environment when the latest include started
    after1,     \* the macro environment when the first include completed
    log,        \* #define and #include directives executed by the latest include
    redefError  \* some #define redefined a macro incompatibly

vars == <<macros, pc, nIncl, pre, after1, log, redefError>>

Init ==
    /\ macros \in StartEnvs
    /\ pc = "tu"
    /\ nIncl = 0
    /\ pre = macros
    /\ after1 = macros
    /\ log = <<>>
    /\ redefError = FALSE

(* The translation unit's #include of the header. *)
Include ==
    /\ pc = "tu"
    /\ nIncl < MaxIncludes
    /\ pc' = "L1"
    /\ pre' = macros
    /\ log' = <<>>
    /\ UNCHANGED <<macros, nIncl, after1, redefError>>

(* line 1 *)
L1 ==
    /\ pc = "L1"
    /\ pc' = IF GuardIfndef(macros) THEN "L2" ELSE "L16"
    /\ UNCHANGED <<macros, nIncl, pre, after1, log, redefError>>

(* line 2 *)
L2 ==
    /\ pc = "L2"
    /\ macros' = GuardDefine(macros)
    /\ redefError' = (redefError \/ Redefines(macros, macros'))
    /\ log' = Append(log, <<"define", GUARD>>)
    /\ pc' = "L4"
    /\ UNCHANGED <<nIncl, pre, after1>>

(* line 4: #include <string.h> *)
L4 ==
    /\ pc = "L4"
    /\ log' = Append(log, <<"include", "string.h">>)
    /\ pc' = "L6"
    /\ UNCHANGED <<macros, nIncl, pre, after1, redefError>>

(* line 6 *)
L6 ==
    /\ pc = "L6"
    /\ pc' = IF Win32Ifdef(macros) THEN "L7" ELSE "L14"
    /\ UNCHANGED <<macros, nIncl, pre, after1, log, redefError>>

(* line 7: #include <ctype.h> *)
L7 ==
    /\ pc = "L7"
    /\ log' = Append(log, <<"include", "ctype.h">>)
    /\ pc' = "L8"
    /\ UNCHANGED <<macros, nIncl, pre, after1, redefError>>

(* line 8, and line 10 when the test fails *)
L8 ==
    /\ pc = "L8"
    /\ pc' = IF StrcasecmpIfndef(macros) THEN "L9" ELSE "L11"
    /\ UNCHANGED <<macros, nIncl, pre, after1, log, redefError>>

(* lines 9-10 *)
L9 ==
    /\ pc = "L9"
    /\ macros' = StrcasecmpDefine(macros)
    /\ redefError' = (redefError \/ Redefines(macros, macros'))
    /\ log' = Append(log, <<"define", STRCASECMP>>)
    /\ pc' = "L11"
    /\ UNCHANGED <<nIncl, pre, after1>>

(* line 11, and line 13 when the test fails *)
L11 ==
    /\ pc = "L11"
    /\ pc' = IF StrncasecmpIfndef(macros) THEN "L12" ELSE "L14"
    /\ UNCHANGED <<macros, nIncl, pre, after1, log, redefError>>

(* lines 12-13 *)
L12 ==
    /\ pc = "L12"
    /\ macros' = StrncasecmpDefine(macros)
    /\ redefError' = (redefError \/ Redefines(macros, macros'))
    /\ log' = Append(log, <<"define", STRNCASECMP>>)
    /\ pc' = "L14"
    /\ UNCHANGED <<nIncl, pre, after1>>

(* line 14: #endif of #ifdef _WIN32 *)
L14 ==
    /\ pc = "L14"
    /\ pc' = "L16"
    /\ UNCHANGED <<macros, nIncl, pre, after1, log, redefError>>

(* line 16: #endif of the guard, the end of the header *)
L16 ==
    /\ pc = "L16"
    /\ pc' = "tu"
    /\ nIncl' = nIncl + 1
    /\ after1' = IF nIncl = 0 THEN macros ELSE after1
    /\ UNCHANGED <<macros, pre, log, redefError>>

Next ==
    \/ Include
    \/ L1
    \/ L2
    \/ L4
    \/ L6
    \/ L7
    \/ L8
    \/ L9
    \/ L11
    \/ L12
    \/ L14
    \/ L16

Spec == Init /\ [][Next]_vars

(* ------------------------------------------------------------------ *)
(* Properties                                                          *)
(* ------------------------------------------------------------------ *)

TypeOK ==
    /\ macros \in StartEnvs
    /\ pre \in StartEnvs
    /\ after1 \in StartEnvs
    /\ pc \in {"tu", "L1", "L2", "L4", "L6", "L7", "L8", "L9", "L11", "L12",
               "L14", "L16"}
    /\ nIncl \in 0..MaxIncludes
    /\ redefError \in BOOLEAN

(* An include of the header has just completed; pre is the environment it *)
(* started from.                                                           *)
IncludeDone == pc = "tu" /\ nIncl >= 1

(* The names the latest include gave a #define to. *)
Defined == { log[i][2] : i \in { j \in 1..Len(log) : log[j][1] = "define" } }

(* The headers the latest include gave an #include to. *)
Included == { log[i][2] : i \in { j \in 1..Len(log) : log[j][1] = "include" } }

(* The primitive each name is aliased to. *)
Alias(name) == IF name = STRCASECMP THEN "_stricmp" ELSE "_strnicmp"

(* C1 as stated: whenever an include that started with _WIN32 defined and *)
(* neither strcasecmp nor strncasecmp defined has completed, strcasecmp   *)
(* expands to _stricmp and strncasecmp to _strnicmp.                      *)
C1_AsStated ==
    (/\ IncludeDone
     /\ IsDefined(pre, WIN32)
     /\ ~IsDefined(pre, STRCASECMP)
     /\ ~IsDefined(pre, STRNCASECMP))
    => (macros[STRCASECMP] = "_stricmp" /\ macros[STRNCASECMP] = "_strnicmp")

(* C1 amended: whenever an include that started with _WIN32 defined, the  *)
(* include guard not defined and neither strcasecmp nor strncasecmp       *)
(* defined has completed, strcasecmp expands to _stricmp and strncasecmp  *)
(* to _strnicmp, never crossed.                                           *)
C1_AliasesOnFirstInclude ==
    (/\ IncludeDone
     /\ IsDefined(pre, WIN32)
     /\ ~IsDefined(pre, GUARD)
     /\ ~IsDefined(pre, STRCASECMP)
     /\ ~IsDefined(pre, STRNCASECMP))
    => (macros[STRCASECMP] = "_stricmp" /\ macros[STRNCASECMP] = "_strnicmp")

C1_Witness ==
    /\ IncludeDone
    /\ IsDefined(pre, WIN32)
    /\ ~IsDefined(pre, GUARD)
    /\ ~IsDefined(pre, STRCASECMP)
    /\ ~IsDefined(pre, STRNCASECMP)
    /\ Defined = {GUARD, STRCASECMP, STRNCASECMP}
    /\ macros[STRCASECMP] = "_stricmp"
    /\ macros[STRNCASECMP] = "_strnicmp"

(* C2: at every point of an include that started with _WIN32 not defined, *)
(* the only name given a #define is the guard, the only header included   *)
(* is <string.h>, and _WIN32, strcasecmp and strncasecmp are defined (or  *)
(* undefined) exactly as they were before the include; once the include   *)
(* has completed the guard is defined.                                    *)
C2_NothingAlteredOffWindows ==
    ~IsDefined(pre, WIN32)
    => /\ \A name \in MacroNames \ {GUARD} : macros[name] = pre[name]
       /\ Defined \subseteq {GUARD}
       /\ Included \subseteq {"string.h"}
       /\ IsDefined(pre, GUARD) => macros[GUARD] = pre[GUARD]
       /\ IncludeDone => IsDefined(macros, GUARD)

C2_Witness ==
    /\ IncludeDone
    /\ ~IsDefined(pre, WIN32)
    /\ ~IsDefined(pre, GUARD)
    /\ ~IsDefined(pre, STRCASECMP)
    /\ pre[STRNCASECMP] = "my_casecmp"
    /\ Defined = {GUARD}
    /\ Included = {"string.h"}
    /\ macros = [pre EXCEPT ![GUARD] = ""]

(* C3: from every starting environment, no #define of the header ever     *)
(* redefines a macro incompatibly, every include after the first executes *)
(* no #define and no #include, and the macro environment after any number *)
(* of includes equals the environment after the first.                    *)
C3_IncludeIdempotent ==
    /\ ~redefError
    /\ nIncl >= 1 => (log = <<>> \/ (pc = "tu" /\ nIncl = 1))
    /\ nIncl >= 1 => macros = after1

C3_Witness ==
    /\ pc = "tu"
    /\ nIncl = 2
    /\ log = <<>>
    /\ IsDefined(pre, GUARD)
    /\ IsDefined(pre, WIN32)
    /\ macros = after1
    /\ macros[GUARD] = ""
    /\ macros[STRCASECMP] = "_stricmp"
    /\ macros[STRNCASECMP] = "my_casecmp"

(* C9 as stated: whenever an include that started with _WIN32 defined has *)
(* completed, no redefinition occurred, each of strcasecmp and            *)
(* strncasecmp that was defined before the include is unchanged, and each *)
(* that was not defined has received its alias.                           *)
C9_AsStated ==
    (IncludeDone /\ IsDefined(pre, WIN32))
    => /\ ~redefError
       /\ \A name \in AliasNames :
            macros[name] = IF IsDefined(pre, name) THEN pre[name] ELSE Alias(name)

(* C9 amended: whenever an include that started with _WIN32 defined has   *)
(* completed, no redefinition occurred and each of strcasecmp and         *)
(* strncasecmp that was defined before the include is unchanged; if the   *)
(* include guard was not defined before the include each name that was    *)
(* not defined has received its alias, independently of the other, and if *)
(* the guard was defined neither name has changed.                        *)
C9_NeverOverrides ==
    (IncludeDone /\ IsDefined(pre, WIN32))
    => /\ ~redefError
       /\ \A name \in AliasNames :
            macros[name] = IF IsDefined(pre, name) \/ IsDefined(pre, GUARD)
                           THEN pre[name]
                           ELSE Alias(name)

C9_Witness ==
    /\ IncludeDone
    /\ IsDefined(pre, WIN32)
    /\ ~IsDefined(pre, GUARD)
    /\ pre[STRCASECMP] = "my_casecmp"
    /\ ~IsDefined(pre, STRNCASECMP)
    /\ Defined = {GUARD, STRNCASECMP}
    /\ macros[STRCASECMP] = "my_casecmp"
    /\ macros[STRNCASECMP] = "_strnicmp"

=============================================================================
